---- MODULE Spec2Model ----
(***************************************************************************)
(* Model of the two components of crates/core:                             *)
(*   - datasource/kafka/topic_writer.rs: TopicWriter (scan, insert_into)   *)
(*     and KafkaSink::write_all, the loop that pulls record batches and    *)
(*     publishes each nonempty one as a single Kafka message;              *)
(*   - accumulators/serializable_accumulator.rs: serialize / deserialize   *)
(*     of ArrayAggAccumulator.                                             *)
(* Spec is the state machine of the sink, CodecSpec that of the codec.     *)
(***************************************************************************)
EXTENDS Integers, Sequences, FiniteSets, TLC

VARIABLES
    \* ---- TopicWriter / KafkaSink ----
    producers,        \* number of KafkaSink values (each owning a FutureProducer) created
    tableOp,          \* the last scan / insert_into call and what it returned
    pc,               \* position of the write_all future: idle, next, send, done
    stream,           \* `data`: the whole SendableRecordBatchStream handed to write_all
    pos,              \* number of items of `data` already yielded by data.next()
    schemaEncodable,  \* whether LineDelimitedWriter can encode the stream's schema
    row_count,        \* the local `row_count`
    inflight,         \* producer.send(..) futures issued and not yet resolved
    published,        \* messages delivered to the broker, in delivery order
    delivery,         \* how the last awaited delivery future resolved: none, Ok, Err
    result,           \* what write_all returned (or how it ended)
    contextEnded,     \* whether the caller's `_context` has ended
    \* ---- ArrayAggAccumulator codec ----
    acc,              \* the caller's accumulator
    blob,             \* the String about to be handed to deserialize
    blobFrom,         \* where `blob` came from: none, serialize, caller
    restored          \* what deserialize(blob) returned (or how it ended)

sinkVars == <<producers, tableOp, pc, stream, pos, schemaEncodable, row_count,
              inflight, published, delivery, result, contextEnded>>
codecVars == <<acc, blob, blobFrom, restored>>
vars == <<sinkVars, codecVars>>

----------------------------------------------------------------------------
\* Bounds of the model.
MaxRows == 3        \* most rows in one record batch
MaxStream == 3      \* most items a batch stream yields
MaxSinks == 1       \* most KafkaSink values created in one behaviour
MaxElems == 3       \* most elements one accumulator receives, over all its updates
MaxUpdates == 2     \* most update_batch calls on one accumulator

----------------------------------------------------------------------------
\* ---- Values ----

NoRows == -1        \* "no row count": an Err / panic carries none

\* The statically configured destination, self.config.topic.
topic == "topic"

\* A record batch is the sequence of its rows. The batch at stream index k
\* with n rows holds rows <<k,1>> .. <<k,n>>, so every row is distinguishable.
Batch(k, n) == [i \in 1..n |-> <<k, i>>]

num_rows(batch) == Len(batch)

Item(k, c) == IF c = NoRows THEN [kind |-> "err", batch |-> <<>>]
                            ELSE [kind |-> "batch", batch |-> Batch(k, c)]

\* Every finite stream of Result<RecordBatch> items, up to the bounds.
Streams ==
    UNION { { [k \in 1..n |-> Item(k, f[k])] : f \in [1..n -> (0..MaxRows) \cup {NoRows}] }
            : n \in 0..MaxStream }

\* The batches yielded so far (error items left out), in pull order.
RECURSIVE BatchesOf(_)
BatchesOf(items) ==
    IF items = <<>> THEN <<>>
    ELSE LET rest == BatchesOf(Tail(items))
         IN  IF Head(items).kind = "batch" THEN <<Head(items).batch>> \o rest ELSE rest

pulledItems == SubSeq(stream, 1, pos)
pulled == BatchesOf(pulledItems)

RECURSIVE SumRows(_)
SumRows(batches) ==
    IF batches = <<>> THEN 0 ELSE num_rows(Head(batches)) + SumRows(Tail(batches))

NonEmpty(batches) == SelectSeq(batches, LAMBDA b : num_rows(b) > 0)

\* LineDelimitedWriter: one JSON object per row, each followed by a newline.
RECURSIVE write_batches(_)
write_batches(batch) ==
    IF batch = <<>> THEN <<>>
    ELSE <<"{", Head(batch), "}", "\n">> \o write_batches(Tail(batch))

\* FutureRecord::to(topic).payload(&buf)
FutureRecord(buf) == [topic |-> topic, payload |-> buf]

Ok(n) == [kind |-> "Ok", rows |-> n, error |-> "none"]
Err(e) == [kind |-> "Err", rows |-> NoRows, error |-> e]
Panic(m) == [kind |-> "Panic", rows |-> NoRows, error |-> m]
NoResult == [kind |-> "none", rows |-> NoRows, error |-> "none"]

NoOp == [op |-> "none", overwrite |-> FALSE, result |-> [kind |-> "none", msg |-> "none"]]

----------------------------------------------------------------------------
\* ---- TopicWriter: scan and insert_into ----

NotImplemented(msg) == [kind |-> "NotImplemented", msg |-> msg]
PlanOk == [kind |-> "Ok", msg |-> "DataSinkExec"]
UnwrapPanic == [kind |-> "Panic", msg |-> "make_producer().unwrap()"]

Projections == {"None", "Some([])", "Some([0])"}
Filters == {"[]", "[a > 1]"}
Limits == {"None", "Some(0)", "Some(1)"}
Plans == {"planA", "planB"}

\* What scan returns for its arguments.
scan_result(projection, filters, limit) ==
    NotImplemented("Reading not implemented for TopicWriter please use TopicReader")

scan(projection, filters, limit) ==
    /\ tableOp' = [op |-> "scan", overwrite |-> FALSE,
                   result |-> scan_result(projection, filters, limit)]
    /\ UNCHANGED <<producers, pc, stream, pos, schemaEncodable, row_count,
                   inflight, published, delivery, result, contextEnded>>
    /\ UNCHANGED codecVars

RejectOverwrite_Never(overwrite) == FALSE

\* `if overwrite { return not_impl_err!(..) }`
RejectOverwrite(overwrite) == overwrite

\* KafkaSink::new: config.make_producer().unwrap() either yields the producer
\* or panics.
insert_into(input, overwrite) ==
    /\ \/ /\ RejectOverwrite(overwrite)
          /\ tableOp' = [op |-> "insert_into", overwrite |-> overwrite,
                         result |-> NotImplemented("Overwrite not implemented for TopicWriter")]
          /\ UNCHANGED producers
       \/ /\ ~RejectOverwrite(overwrite)
          /\ producers < MaxSinks
          /\ \/ /\ producers' = producers + 1
                /\ tableOp' = [op |-> "insert_into", overwrite |-> overwrite,
                               result |-> PlanOk]
             \/ /\ UNCHANGED producers
                /\ tableOp' = [op |-> "insert_into", overwrite |-> overwrite,
                               result |-> UnwrapPanic]
    /\ UNCHANGED <<pc, stream, pos, schemaEncodable, row_count,
                   inflight, published, delivery, result, contextEnded>>
    /\ UNCHANGED codecVars

----------------------------------------------------------------------------
\* ---- KafkaSink::write_all ----

AddRows_Assign(rc, batch) == num_rows(batch)

\* `row_count += batch.num_rows()`
AddRows(rc, batch) == rc + num_rows(batch)

ShouldPublish_Always(batch) == TRUE

\* `if batch.num_rows() > 0`
ShouldPublish(batch) == num_rows(batch) > 0

Encode_FirstRow(batch) == write_batches(SubSeq(batch, 1, 1))

\* writer.write_batches(&vec![&batch]); writer.finish(); writer.into_inner()
Encode(batch) == write_batches(batch)

AfterSend_NoAwait == "next"

\* `.send(record, Duration::from_secs(0)).await`: the loop is suspended until
\* the delivery future resolves.
AfterSend == "send"

AfterStreamError_Continue == "next"

\* `data.next().await.transpose()?`: an Err item makes write_all return.
AfterStreamError == "done"

\* data.next() consumes the item it yields.
NextPos(p) == p + 1

\* The execution of the DataSinkExec plan calls write_all on its sink with
\* the input stream.
write_all_start ==
    /\ pc = "idle"
    /\ producers > 0
    /\ \E s \in Streams, enc \in BOOLEAN :
          /\ stream' = s
          /\ schemaEncodable' = enc
    /\ pos' = 0
    /\ row_count' = 0
    /\ pc' = "next"
    /\ UNCHANGED <<producers, tableOp, inflight, published, delivery, result,
                   contextEnded>>
    /\ UNCHANGED codecVars

\* data.next().await resolves; the loop body runs up to its next await.
write_all_next ==
    /\ pc = "next"
    /\ IF pos = Len(stream)
       THEN \* None: the loop ends, Ok(row_count as u64)
            /\ result' = Ok(row_count)
            /\ pc' = "done"
            /\ UNCHANGED <<pos, row_count, inflight>>
       ELSE LET item == stream[pos + 1] IN
            /\ pos' = NextPos(pos)
            /\ IF item.kind = "err"
               THEN \* transpose()? returns the stream's error
                    /\ result' = Err("stream")
                    /\ pc' = AfterStreamError
                    /\ UNCHANGED <<row_count, inflight>>
               ELSE /\ row_count' = AddRows(row_count, item.batch)
                    /\ IF ShouldPublish(item.batch)
                       THEN IF schemaEncodable
                            THEN /\ inflight' = Append(inflight, FutureRecord(Encode(item.batch)))
                                 /\ pc' = AfterSend
                                 /\ UNCHANGED result
                            ELSE \* writer.write_batches(..)? returns the ArrowError
                                 /\ result' = Err("arrow")
                                 /\ pc' = "done"
                                 /\ UNCHANGED inflight
                       ELSE /\ pc' = "next"
                            /\ UNCHANGED <<result, inflight>>
    /\ UNCHANGED <<producers, tableOp, stream, schemaEncodable, published, delivery,
                   contextEnded>>
    /\ UNCHANGED codecVars

\* The delivery future resolves Ok: the broker holds the message.
write_all_delivered ==
    /\ pc = "send"
    /\ inflight # <<>>
    /\ published' = Append(published, Head(inflight))
    /\ inflight' = Tail(inflight)
    /\ delivery' = "Ok"
    /\ pc' = "next"
    /\ UNCHANGED <<producers, tableOp, stream, pos, schemaEncodable, row_count,
                   result, contextEnded>>
    /\ UNCHANGED codecVars

write_all_not_delivered_Rollback ==
    /\ pc = "send"
    /\ inflight # <<>>
    /\ inflight' = Tail(inflight)
    /\ delivery' = "Err"
    /\ published' = <<>>
    /\ result' = Panic("Message not delivered")
    /\ pc' = "done"
    /\ UNCHANGED <<producers, tableOp, stream, pos, schemaEncodable, row_count,
                   contextEnded>>
    /\ UNCHANGED codecVars

\* The delivery future resolves Err (queue full, broker down, timed out):
\* `.expect("Message not delivered")` panics.
write_all_not_delivered ==
    /\ pc = "send"
    /\ inflight # <<>>
    /\ inflight' = Tail(inflight)
    /\ delivery' = "Err"
    /\ result' = Panic("Message not delivered")
    /\ pc' = "done"
    /\ UNCHANGED <<producers, tableOp, stream, pos, schemaEncodable, row_count,
                   published, contextEnded>>
    /\ UNCHANGED codecVars

\* The caller's context ends while the call is running. write_all never
\* reads `_context`, so nothing else changes.
context_ends ==
    /\ pc \in {"next", "send"}
    /\ ~contextEnded
    /\ contextEnded' = TRUE
    /\ UNCHANGED <<producers, tableOp, pc, stream, pos, schemaEncodable, row_count,
                   inflight, published, delivery, result>>
    /\ UNCHANGED codecVars

----------------------------------------------------------------------------
\* ---- ArrayAggAccumulator codec ----

DataTypes == {"Int32", "Utf8", "List(Int32)"}
NULL == "NULL"
\* The non-null values of a datatype, written as text.
Vals(dt) ==
    IF dt = "Int32" THEN {"1", "2"}
    ELSE IF dt = "Utf8" THEN {"a", "null"}
    ELSE {"[1]", "[1,2]"}
ListOf(dt) == "List(" \o dt \o ")"
\* The element type of a list type.
ElemType(t) == CHOOSE dt \in DataTypes : ListOf(dt) = t

\* An arrow array: its datatype and its elements (NULL for a null slot).
Array(dt, elems) == [datatype |-> dt, elems |-> elems]
Arrays(dt, maxLen) ==
    UNION { { Array(dt, e) : e \in [1..n -> Vals(dt) \cup {NULL}] } : n \in 0..maxLen }

\* ScalarValue: List(..) holds a one-row ListArray (the row may be null);
\* any other kind holds one primitive value.
ListScalar(dt, isNull, elems) ==
    [kind |-> "List", datatype |-> dt, null |-> isNull, values |-> elems]
PrimScalar(dt, v) ==
    [kind |-> "Scalar", datatype |-> dt, null |-> (v = NULL), values |-> <<v>>]

\* -- datafusion's ArrayAggAccumulator, as far as the codec uses it --

NoAcc == [datatype |-> "none", values |-> <<>>]

\* ArrayAggAccumulator::try_new(&datatype)
try_new(datatype) == [datatype |-> datatype, values |-> <<>>]

RECURSIVE concat(_)
concat(arrays) ==
    IF arrays = <<>> THEN <<>> ELSE Head(arrays).elems \o concat(Tail(arrays))

\* Accumulator::evaluate: the list of everything received (the concatenation
\* of the arrays, of their datatype), a null list of self.datatype when
\* nothing was.
evaluate(a) ==
    IF a.values = <<>> THEN ListScalar(a.datatype, TRUE, <<>>)
    ELSE ListScalar(Head(a.values).datatype, FALSE, concat(a.values))

state_EmptyWhenFresh(a) == IF a.values = <<>> THEN <<>> ELSE <<evaluate(a)>>

\* Accumulator::state: the single list entry.
state(a) == <<evaluate(a)>>

\* as_list_array(&array): the downcast succeeds on list arrays only.
as_list_array(array) == \E dt \in DataTypes : array.datatype = ListOf(dt)

Quote(v) == "'" \o v \o "'"

\* One element of a list as a JSON token; also its text inside a list value.
EncodeElem(dt, v) ==
    IF v = NULL THEN "null"
    ELSE IF dt = "Utf8" THEN Quote(v) ELSE v

\* A list value written as text: the element of a list array.
RECURSIVE JoinElems(_, _)
JoinElems(dt, elems) ==
    IF elems = <<>> THEN ""
    ELSE IF Len(elems) = 1 THEN EncodeElem(dt, elems[1])
    ELSE EncodeElem(dt, elems[1]) \o "," \o JoinElems(dt, Tail(elems))
ListText(dt, elems) == "[" \o JoinElems(dt, elems) \o "]"

ElemSeqs(dt) == UNION { [1..n -> Vals(dt) \cup {NULL}] : n \in 0..MaxElems }
\* The elements of a list value.
Items(dt, text) == CHOOSE e \in ElemSeqs(dt) : ListText(dt, e) = text

\* ScalarValue::to_array of a List scalar: a one-row list array.
to_array(sv) ==
    Array(ListOf(sv.datatype), <<IF sv.null THEN NULL ELSE ListText(sv.datatype, sv.values)>>)

\* The non-null rows of a list array, each as an array of the element type.
RECURSIVE FlattenRows(_, _)
FlattenRows(dt, rows) ==
    IF rows = <<>> THEN <<>>
    ELSE IF Head(rows) = NULL THEN FlattenRows(dt, Tail(rows))
    ELSE <<Array(dt, Items(dt, Head(rows)))>> \o FlattenRows(dt, Tail(rows))

\* Accumulator::merge_batch(&states)
merge_batch(a, states) ==
    IF states = <<>> THEN [kind |-> "Ok", msg |-> "none", acc |-> a]
    ELSE IF Len(states) # 1
    THEN [kind |-> "Panic", msg |-> "array_agg states must be singleton!", acc |-> NoAcc]
    ELSE IF ~as_list_array(states[1])
    THEN [kind |-> "Err", msg |-> "could not cast value to ListArray", acc |-> NoAcc]
    ELSE [kind |-> "Ok", msg |-> "none",
          acc |-> [a EXCEPT !.values =
                      a.values \o FlattenRows(ElemType(states[1].datatype), states[1].elems)]]

\* -- the blob: the JSON text as its sequence of tokens (commas and colons
\*    left out) --


IsElemToken(dt, tok) ==
    \/ tok = "null"
    \/ \E v \in Vals(dt) : EncodeElem(dt, v) = tok

DecodeElem(dt, tok) ==
    IF tok = "null" THEN NULL
    ELSE CHOOSE v \in Vals(dt) : EncodeElem(dt, v) = tok

\* SerializableScalarValue::from(ScalarValue), as JSON: a tagged record.
EncodeScalar(v) ==
    IF v.kind = "List"
    THEN IF v.null THEN <<"{", "List", v.datatype, "null", "}">>
         ELSE <<"{", "List", v.datatype, "[">>
              \o [i \in 1..Len(v.values) |-> EncodeElem(v.datatype, v.values[i])]
              \o <<"]", "}">>
    ELSE <<"{", v.datatype, EncodeElem(v.datatype, v.values[1]), "}">>

RECURSIVE EncodeStates(_)
EncodeStates(st) ==
    IF st = <<>> THEN <<>> ELSE EncodeScalar(Head(st)) \o EncodeStates(Tail(st))

\* serde_json::to_string(&SerializableArrayAggState { state })
to_string(st) == <<"{", "state", "[">> \o EncodeStates(st) \o <<"]", "}">>

ParseError == [ok |-> FALSE, state |-> <<>>]

\* Index of the first "]" at or after position j, 0 when there is none.
RECURSIVE FindClose(_, _)
FindClose(toks, j) ==
    IF j > Len(toks) THEN 0
    ELSE IF toks[j] = "]" THEN j
    ELSE FindClose(toks, j + 1)

\* The tagged records of the "state" array, back into ScalarValues.
RECURSIVE ParseStates(_)
ParseStates(toks) ==
    IF toks = <<>> THEN [ok |-> TRUE, state |-> <<>>]
    ELSE IF Len(toks) < 4 \/ toks[1] # "{" THEN ParseError
    ELSE IF toks[2] = "List"
    THEN IF Len(toks) < 5 \/ toks[3] \notin DataTypes THEN ParseError
         ELSE IF toks[4] = "null"
         THEN IF toks[5] # "}" THEN ParseError
              ELSE LET rest == ParseStates(SubSeq(toks, 6, Len(toks)))
                   IN  IF ~rest.ok THEN ParseError
                       ELSE [ok |-> TRUE,
                             state |-> <<ListScalar(toks[3], TRUE, <<>>)>> \o rest.state]
         ELSE IF toks[4] # "[" THEN ParseError
         ELSE LET j == FindClose(toks, 5) IN
              IF j = 0 \/ j + 1 > Len(toks) THEN ParseError
              ELSE IF toks[j + 1] # "}" THEN ParseError
              ELSE IF \E i \in 5..(j - 1) : ~IsElemToken(toks[3], toks[i]) THEN ParseError
              ELSE LET rest == ParseStates(SubSeq(toks, j + 2, Len(toks)))
                       elems == [i \in 1..(j - 5) |-> DecodeElem(toks[3], toks[i + 4])]
                   IN  IF ~rest.ok THEN ParseError
                       ELSE [ok |-> TRUE,
                             state |-> <<ListScalar(toks[3], FALSE, elems)>> \o rest.state]
    ELSE IF toks[2] \notin DataTypes \/ ~IsElemToken(toks[2], toks[3]) \/ toks[4] # "}"
    THEN ParseError
    ELSE LET rest == ParseStates(SubSeq(toks, 5, Len(toks)))
         IN  IF ~rest.ok THEN ParseError
             ELSE [ok |-> TRUE,
                   state |-> <<PrimScalar(toks[2], DecodeElem(toks[2], toks[3]))>> \o rest.state]

\* serde_json::from_str::<SerializableArrayAggState>(..) followed by
\* ScalarValue::from on every element.
from_str(bytes) ==
    IF Len(bytes) < 5 THEN ParseError
    ELSE IF SubSeq(bytes, 1, 3) # <<"{", "state", "[">> THEN ParseError
    ELSE IF SubSeq(bytes, Len(bytes) - 1, Len(bytes)) # <<"]", "}">> THEN ParseError
    ELSE ParseStates(SubSeq(bytes, 4, Len(bytes) - 2))

\* -- SerializableAccumulator for ArrayAggAccumulator --

\* serialize(&mut self)
serialize(a) == to_string(state(a))

\* `serde_json::from_str(bytes.as_str()).unwrap()`: what the unwrap yields
\* on a parse error.
OnParseError == [kind |-> "Panic", msg |-> "called Result::unwrap() on an Err value",
                 acc |-> NoAcc]

InvalidState == [kind |-> "Err", msg |-> "Invalid state for ArrayAggAccumulator",
                 acc |-> NoAcc]

\* list.values() of every List element of the state; other elements are
\* filtered out.
RECURSIVE ListValues(_)
ListValues(st) ==
    IF st = <<>> THEN <<>>
    ELSE IF Head(st).kind = "List"
         THEN <<Array(Head(st).datatype, Head(st).values)>> \o ListValues(Tail(st))
         ELSE ListValues(Tail(st))

\* deserialize(bytes)
deserialize(bytes) ==
    LET parsed == from_str(bytes) IN
    IF ~parsed.ok THEN OnParseError
    ELSE IF parsed.state = <<>> THEN InvalidState
    ELSE IF Head(parsed.state).kind # "List" THEN InvalidState
    ELSE LET datatype == ListOf(Head(parsed.state).datatype)
             fresh == try_new(datatype)
         IN  merge_batch(fresh, ListValues(parsed.state))

NoRestore == [kind |-> "none", msg |-> "none", acc |-> NoAcc]
NoBlob == [src |-> "none", acc |-> NoAcc]

CodecIdle ==
    /\ acc = NoAcc
    /\ blob = <<>>
    /\ blobFrom = NoBlob
    /\ restored = NoRestore

RECURSIVE TotalLen(_)
TotalLen(arrays) ==
    IF arrays = <<>> THEN 0 ELSE Len(Head(arrays).elems) + TotalLen(Tail(arrays))

\* acc.update_batch(&[array]): the array is appended to the values.
update_batch(array) ==
    /\ acc # NoAcc
    /\ array.datatype = acc.datatype
    /\ Len(acc.values) < MaxUpdates
    /\ TotalLen(acc.values) + Len(array.elems) <= MaxElems
    /\ acc' = [acc EXCEPT !.values = Append(acc.values, array)]
    /\ UNCHANGED <<blob, blobFrom, restored>>
    /\ UNCHANGED sinkVars

\* acc.merge_batch(&[state of another accumulator that received `elems`, or
\* nothing when isNull]).
do_merge(isNull, elems) ==
    /\ acc # NoAcc
    /\ Len(acc.values) < MaxUpdates
    /\ TotalLen(acc.values) + Len(elems) <= MaxElems
    /\ isNull => elems = <<>>
    /\ acc' = merge_batch(acc, <<to_array(ListScalar(acc.datatype, isNull, elems))>>).acc
    /\ UNCHANGED <<blob, blobFrom, restored>>
    /\ UNCHANGED sinkVars

do_serialize_Drain ==
    /\ acc # NoAcc
    /\ blob' = to_string(<<evaluate(acc)>>)
    /\ blobFrom' = [src |-> "serialize", acc |-> acc]
    /\ restored' = NoRestore
    /\ acc' = [acc EXCEPT !.values = <<>>]
    /\ UNCHANGED sinkVars

\* SerializableAccumulator::serialize(&mut acc): the caller keeps the blob.
do_serialize ==
    /\ acc # NoAcc
    /\ blob' = serialize(acc)
    /\ blobFrom' = [src |-> "serialize", acc |-> acc]
    /\ restored' = NoRestore
    /\ UNCHANGED acc
    /\ UNCHANGED sinkVars

\* Blobs a caller can hand to deserialize that serialize did not produce.
NotValid == <<"not", "valid">>
EmptyStateBlob == <<"{", "state", "[", "]", "}">>
CallerBlobs ==
    { NotValid,
      <<>>,
      EmptyStateBlob,
      <<"{", "state", "[", "{", "List", "Int32", "[", "1">>,
      <<"{", "state", "[", "{", "List", "Int32", "[", "'a'", "]", "}", "]", "}">>,
      <<"{", "state", "[", "{", "Int32", "1", "}", "]", "}">>,
      <<"{", "state", "[", "{", "List", "Utf8", "[", "'a'", "]", "}",
                           "{", "Utf8", "'a'", "}", "]", "}">>,
      <<"{", "state", "[", "{", "List", "Int32", "[", "1", "]", "}",
                           "{", "List", "Int32", "[", "2", "]", "}", "]", "}">>,
      <<"{", "state", "[", "{", "List", "List(Int32)", "[", "[1]", "]", "}",
                           "{", "Int32", "2", "}", "]", "}">> }

caller_blob(b) ==
    /\ blob' = b
    /\ blobFrom' = [src |-> "caller", acc |-> NoAcc]
    /\ restored' = NoRestore
    /\ UNCHANGED acc
    /\ UNCHANGED sinkVars

\* ArrayAggAccumulator::deserialize(blob)
do_deserialize ==
    /\ blobFrom.src # "none"
    /\ restored = NoRestore
    /\ restored' = deserialize(blob)
    /\ UNCHANGED <<acc, blob, blobFrom>>
    /\ UNCHANGED sinkVars

----------------------------------------------------------------------------
\* ---- The sink's specification ----

SinkInit ==
    /\ producers = 0
    /\ tableOp = NoOp
    /\ pc = "idle"
    /\ stream = <<>>
    /\ pos = 0
    /\ schemaEncodable = TRUE
    /\ row_count = 0
    /\ inflight = <<>>
    /\ published = <<>>
    /\ delivery = "none"
    /\ result = NoResult
    /\ contextEnded = FALSE

Init == SinkInit /\ CodecIdle

Next ==
    \/ \E p \in Projections, f \in Filters, l \in Limits : scan(p, f, l)
    \/ \E i \in Plans, o \in BOOLEAN : insert_into(i, o)
    \/ write_all_start
    \/ write_all_next
    \/ write_all_delivered
    \/ write_all_not_delivered
    \/ context_ends

Spec == Init /\ [][Next]_vars

\* The sink under the scheduling the runtime gives a polled future: a pull
\* that can yield does yield, and an awaited delivery future resolves (Ok, or
\* Err once its wait is over).
FairSpec ==
    /\ Spec
    /\ WF_vars(write_all_next)
    /\ WF_vars(write_all_delivered \/ write_all_not_delivered)

----------------------------------------------------------------------------
\* ---- The codec's specification ----

CodecInit ==
    /\ SinkInit
    /\ acc \in { try_new(dt) : dt \in DataTypes }
    /\ blob = <<>>
    /\ blobFrom = NoBlob
    /\ restored = NoRestore

CodecNext ==
    \/ \E array \in Arrays(acc.datatype, MaxElems) : update_batch(array)
    \/ \E isNull \in BOOLEAN, elems \in ElemSeqs(acc.datatype) : do_merge(isNull, elems)
    \/ do_serialize
    \/ \E b \in CallerBlobs : caller_blob(b)
    \/ do_deserialize

CodecSpec == CodecInit /\ [][CodecNext]_vars

----------------------------------------------------------------------------
\* ---- Properties of the sink (checked under Spec) ----

allBatches == BatchesOf(stream)
NoStreamError == \A k \in 1..Len(stream) : stream[k].kind = "batch"
\* A publish is the encoding of a batch followed by its delivery.
NoPublishFailed == delivery # "Err" /\ result # Err("arrow")

\* The rows a message carries: one per line of its payload.
RowsIn(msg) == [i \in 1..(Len(msg.payload) \div 4) |-> msg.payload[4 * i - 2]]

RECURSIVE RowsPublished(_)
RowsPublished(msgs) ==
    IF msgs = <<>> THEN 0 ELSE Len(RowsIn(Head(msgs))) + RowsPublished(Tail(msgs))

\* C1: when the stream holds no error item and every publish (encoding and
\* delivery of a nonempty batch) succeeded, write_all returns Ok with the sum
\* of the row counts of all the batches, and the number of published messages
\* is the number of batches with at least one row.
C1_RowAccounting ==
    (pc = "done" /\ NoStreamError /\ NoPublishFailed) =>
        /\ result = Ok(SumRows(allBatches))
        /\ pos = Len(stream)
        /\ Len(published) = Len(NonEmpty(allBatches))

C1_Witness ==
    /\ pc = "done"
    /\ Len(stream) = 2
    /\ NoStreamError
    /\ num_rows(stream[1].batch) = 3
    /\ num_rows(stream[2].batch) = 2
    /\ result = Ok(5)
    /\ Len(published) = 2

\* C2: a batch with zero rows never causes a publish: no message, in flight
\* or published, has an empty payload, there are never more messages than
\* nonempty batches pulled, and a stream of empty batches only ends with no
\* message published and Ok(0).
C2_SkipEmpty ==
    /\ \A i \in 1..Len(published) : published[i].payload # <<>>
    /\ \A i \in 1..Len(inflight) : inflight[i].payload # <<>>
    /\ Len(published) + Len(inflight) <= Len(NonEmpty(pulled))
    /\ (pc = "done" /\ NoStreamError /\ NonEmpty(allBatches) = <<>>) =>
           (published = <<>> /\ inflight = <<>> /\ result = Ok(0))

C2_Witness ==
    /\ pc = "done"
    /\ Len(stream) = 2
    /\ NoStreamError
    /\ NonEmpty(allBatches) = <<>>
    /\ published = <<>>
    /\ result = Ok(0)

\* The message sequence that carries exactly the given batches, one message
\* per batch, in order.
Carries(msgs, batches) ==
    /\ Len(msgs) = Len(batches)
    /\ \A i \in 1..Len(msgs) : msgs[i].topic = topic /\ RowsIn(msgs[i]) = batches[i]

\* C3 as stated: at every point the published messages carry exactly the
\* nonempty batches pulled so far, in pull order.
C3_Original == Carries(published, NonEmpty(pulled))

\* The last pulled batch is not (yet) published: its publish is outstanding,
\* or its encoding or delivery failed.
LastUnpublished ==
    \/ pc = "send"
    \/ pc = "done" /\ (delivery = "Err" \/ result = Err("arrow"))

\* C3 amended: the published messages carry exactly the nonempty batches
\* pulled so far, in pull order, one message per batch, leaving out only the
\* last pulled batch while its publish is outstanding or after its encoding
\* or delivery failed.
C3_OrderedPrefix ==
    Carries(published,
            NonEmpty(BatchesOf(SubSeq(stream, 1, IF LastUnpublished THEN pos - 1 ELSE pos))))

C3_Witness ==
    /\ pc = "send"
    /\ Len(published) = 2
    /\ Len(pulled) = 3

\* C4: at most one publish is in flight, and a batch is pulled only when no
\* publish is outstanding and every nonempty batch pulled before it has been
\* published.
C4_OneInFlight ==
    /\ [](Len(inflight) <= 1)
    /\ [][pos' > pos => (inflight = <<>> /\ Len(published) = Len(NonEmpty(pulled)))]_vars

C4_Witness ==
    /\ pc = "send"
    /\ Len(inflight) = 1
    /\ Len(published) = 1
    /\ pos < Len(stream)

\* C5 as stated: a failed publish makes write_all return a delivery error as
\* a typed result, never a panic.
C5_Claim ==
    delivery = "Err" => (pc = "done" /\ result = Err("delivery"))

\* C6 as stated: when write_all fails after having published some batches,
\* what it reports to the caller includes the number of rows published.
C6_Claim ==
    (pc = "done" /\ result.kind # "Ok" /\ published # <<>>) =>
        result.rows = RowsPublished(published)

\* C7 as stated: once the caller's context has ended, write_all pulls no
\* further batch.
C7_Claim == [][contextEnded => pos' = pos]_vars

\* C8: scan fails with a not-implemented error for every projection, filter
\* list and limit, insert_into with overwrite = true fails with one for every
\* input plan, and such a call creates no sink or producer and publishes
\* nothing.
C8_Unsupported ==
    /\ [](tableOp.op = "scan" => tableOp.result.kind = "NotImplemented")
    /\ []((tableOp.op = "insert_into" /\ tableOp.overwrite) =>
              tableOp.result.kind = "NotImplemented")
    /\ [][(tableOp' # tableOp /\ (tableOp'.op = "scan" \/ tableOp'.overwrite)) =>
              (producers' = producers /\ published' = published /\ inflight' = inflight)]_vars

C8_Witness ==
    /\ tableOp.op = "insert_into"
    /\ tableOp.overwrite
    /\ tableOp.result.kind = "NotImplemented"
    /\ producers = 0

----------------------------------------------------------------------------
\* ---- Properties of the codec (checked under CodecSpec) ----

\* The error messages that contain "Empty state".
EmptyStateMessages == {"Empty state"}

FromFresh == blobFrom.src = "serialize" /\ blobFrom.acc.values = <<>>

\* C9 as stated: restoring the blob captured from an accumulator that
\* received no update returns an error whose message contains "Empty state".
C9_Claim ==
    (FromFresh /\ restored # NoRestore) =>
        (restored.kind = "Err" /\ restored.msg \in EmptyStateMessages)

\* C10 as stated: restoring from a blob that does not parse returns a decode
\* error to the caller (no panic), an outcome other than the one returned for
\* a well-formed blob with no state elements.
C10_Claim ==
    (restored # NoRestore /\ ~from_str(blob).ok) =>
        (restored.kind = "Err" /\ restored # deserialize(EmptyStateBlob))

----------------------------------------------------------------------------
\* ---- Round trip, merge and capture (checked under CodecSpec) ----

Captured == blobFrom.src = "serialize"
\* The captured accumulator had received at least one update batch.
FromUpdated == Captured /\ blobFrom.acc.values # <<>>
Primitive(dt) == dt \in {"Int32", "Utf8"}

Occurrences(seq, v) == Cardinality({ i \in 1..Len(seq) : seq[i] = v })
\* Equal as collections, whatever the order.
SameBag(s, t) ==
    /\ Len(s) = Len(t)
    /\ \A i \in 1..Len(s) : Occurrences(s, s[i]) = Occurrences(t, s[i])

\* C11 as stated: the accumulator returned by deserialize(serialize(acc)),
\* for an acc of integer or text values that received one or more update
\* batches, evaluates to the same result as acc.
C11_Claim ==
    (FromUpdated /\ Primitive(blobFrom.acc.datatype) /\ restored # NoRestore) =>
        /\ restored.kind = "Ok"
        /\ evaluate(restored.acc) = evaluate(blobFrom.acc)

\* The states of a second accumulator of datatype dt holding at most one value.
SecondStates(dt) ==
    { to_array(ListScalar(dt, FALSE, w)) : w \in { e \in ElemSeqs(dt) : Len(e) <= 1 } }

\* C12 as stated: merging the state of a second accumulator P (values W) into
\* the accumulator restored from the capture of O (values V) evaluates to a
\* collection equal, whatever the order, to V followed by W.
C12_Claim ==
    (FromUpdated /\ restored # NoRestore) =>
        /\ restored.kind = "Ok"
        /\ \A p \in SecondStates(blobFrom.acc.datatype) :
              LET m == merge_batch(restored.acc, <<p>>) IN
              /\ m.kind = "Ok"
              /\ SameBag(evaluate(m.acc).values,
                         concat(blobFrom.acc.values)
                             \o Items(blobFrom.acc.datatype, p.elems[1]))

\* Some element differs in kind or datatype from the first one.
Heterogeneous(st) ==
    \E i \in 2..Len(st) : st[i].kind # st[1].kind \/ st[i].datatype # st[1].datatype

\* C13 as stated: a decoded state with an element whose kind or datatype
\* differs from the first element's makes deserialize return an error, and
\* whenever deserialize succeeds every decoded element was passed to
\* merge_batch.
C13_Claim ==
    (restored # NoRestore /\ from_str(blob).ok) =>
        LET st == from_str(blob).state IN
        /\ Heterogeneous(st) => restored.kind = "Err"
        /\ restored.kind = "Ok" => Len(ListValues(st)) = Len(st)

\* C14 as stated: the restored accumulator has the element datatype of the
\* first decoded element (the type of the values in the list, not the list
\* type), which is the element datatype of the captured accumulator.
C14_Claim ==
    restored.kind = "Ok" =>
        /\ restored.acc.datatype = Head(from_str(blob).state).datatype
        /\ Captured => restored.acc.datatype = blobFrom.acc.datatype

\* C15: serialize leaves the accumulator as it was, so that what it evaluates
\* to, now and after any later update or merge, does not depend on the
\* capture, and a second capture with no update in between returns the blob
\* of the first.
C15_CaptureReadsOnly ==
    [][do_serialize =>
          /\ acc' = acc
          /\ evaluate(acc') = evaluate(acc)
          /\ (Captured /\ blobFrom.acc = acc) => blob' = blob]_vars

\* A second capture of an accumulator holding values, nothing in between.
C15_Witness ==
    /\ FromUpdated
    /\ TotalLen(acc.values) > 0
    /\ blobFrom.acc = acc
    /\ ENABLED (do_serialize /\ blob' = blob)

----------------------------------------------------------------------------
\* ---- Further properties of the sink (checked under Spec, termination under FairSpec) ----

IsPrefix(a, b) == Len(a) <= Len(b) /\ SubSeq(b, 1, Len(a)) = a

Failed == pc = "done" /\ result.kind \in {"Err", "Panic"}

\* C17: published messages are never retracted (the published sequence only
\* grows), and when write_all ends in failure at item k of the stream
\* (stream error, encoding error or failed delivery) the published messages
\* are exactly those of the nonempty batches before item k.
C17_NoRollback ==
    /\ [][IsPrefix(published, published')]_vars
    /\ [](Failed =>
            (pos >= 1 /\ Carries(published, NonEmpty(BatchesOf(SubSeq(stream, 1, pos - 1))))))

C17_Witness ==
    /\ Failed
    /\ delivery = "Err"
    /\ pos = 3
    /\ Len(published) = 2

\* C18: when the stream yields an error item, write_all returns that error,
\* and from then on pulls nothing and publishes nothing, even when the stream
\* holds further batches.
C18_StreamError ==
    /\ []((pos >= 1 /\ stream[pos].kind = "err") => (pc = "done" /\ result = Err("stream")))
    /\ [](result = Err("stream") => (pos >= 1 /\ stream[pos].kind = "err" /\ inflight = <<>>))
    /\ [][result = Err("stream") =>
            (pos' = pos /\ published' = published /\ inflight' = inflight
             /\ result' = result)]_vars

C18_Witness ==
    /\ result = Err("stream")
    /\ pos = 2
    /\ Len(published) = 1
    /\ Len(stream) = 3
    /\ stream[3].kind = "batch"
    /\ num_rows(stream[3].batch) > 0

\* C19: whenever write_all is about to pull, and when it has returned Ok, its
\* row_count equals the number of rows in the messages published so far;
\* row_count never exceeds the rows pulled and never decreases.
C19_RunningCount ==
    /\ []((pc = "next" \/ (pc = "done" /\ result.kind = "Ok")) =>
             row_count = RowsPublished(published))
    /\ [](row_count <= SumRows(pulled))
    /\ [][row_count' >= row_count]_vars

C19_Witness ==
    /\ pc = "next"
    /\ pos = 2
    /\ row_count = 5
    /\ Len(published) = 2
    /\ pos < Len(stream)

Running == pc \in {"next", "send"}

\* A running write_all eventually ends, one way or another.
Terminates == Running ~> (pc = "done" /\ result # NoResult)

\* C20 as stated: for every finite stream, when every pull yields and every
\* awaited delivery resolves (Ok, or Err after its wait), a running write_all
\* eventually returns to its caller: the row total or an error.
C20_Claim == Running ~> (pc = "done" /\ result.kind \in {"Ok", "Err"})

====
